---- MODULE Spec2Model ----
(***************************************************************************)
(* Model of the goft API client (pkg/ftapi) and of the "projects path"     *)
(* command (cmd/repo_path.go).                                             *)
(*                                                                         *)
(* One action per client operation.  An operation is a single synchronous  *)
(* call: it builds a request, hands it to the Transport (http.Client.Do),  *)
(* and returns.  The Transport and the remote server are the environment:  *)
(* each call draws an environment record env that fixes whether the        *)
(* exchange fails, and the status, quota header and body of the response.  *)
(***************************************************************************)
EXTENDS Integers, Sequences, FiniteSets, TLC

VARIABLES
    ft,         \* the client: [apiEndpoint, httpClient]           (ftapi.go:10-13)
    op,         \* name of the operation that returned last
    arg,        \* the inputs of that operation
    wire,       \* what the Transport returned to it: [resp, err]
    sent,       \* the requests that operation handed to the Transport
    ret,        \* what it returned to its caller: [resp, err, val]
    user,       \* caller-owned User value passed to CreateUser/UpdateUser
    userBefore, \* that value as it was when the call was made
    img,        \* caller-owned byte stream passed to SetUserImage
    projects,   \* the remote collection of the user's projects during the call
    pc,         \* position of the program: "idle", "returned", "loop", "done",
                \* "conc" (several callers share the client)
    rp,         \* repo-path command state: [slug, i, asked, err, out]
    cc          \* the concurrent callers of Get: [pc, url, req, env, ret, sent] each

vars == <<ft, op, arg, wire, sent, ret, user, userBefore, img, projects, pc, rp, cc>>

----------------------------------------------------------------------------
(* Bounds *)

MaxProjects == 3     \* entries in the remote collection
MaxImg      == 2     \* bytes (chunks) in an upload stream
MaxCampus   == 2     \* entries in a User's CampusUsers list
NumCallers  == 2     \* callers sharing one client concurrently
PerPage     == 2     \* page size the remote server uses

----------------------------------------------------------------------------
(* Values *)

Nil == <<>>                      \* a nil pointer / absent value
Some(x) == <<x>>                 \* a non-nil pointer to x
NoErr == "nil"                   \* a nil error

Endpoint == "http://api"
BadEscape == "%zz"               \* url.Parse rejects an invalid escape
Logins == {"spoody", BadEscape}
GetPaths == {"/v2/users", "/users/spoody", "/" \o BadEscape}

Contains(s, sub) ==
    \E i \in 1..(Len(s) - Len(sub) + 1) : SubSeq(s, i, i + Len(sub) - 1) = sub

EndsWith(s, suf) ==
    Len(s) >= Len(suf) /\ SubSeq(s, Len(s) - Len(suf) + 1, Len(s)) = suf

Statuses == {200, 201, 204, 302, 404, 429, 500}
Is2xx(s) == s >= 200 /\ s < 300

\* Value of the X-Hourly-Ratelimit-Remaining header; "" when absent.
Remainings == {"", "0", "7"}

\* The environment of one exchange.
\*   fail: "" (a response arrives), "net" (transport error, no response),
\*         "redirect" (the redirect policy fails: http.Client.Do returns the
\*         last response together with an error)
\*   variant: which of two bodies the server sends for this status
\*   coll: the remote collection of the user's projects at that moment
Envs(c) ==
    [fail: {""}, status: Statuses, remaining: Remainings, variant: {1, 2}, coll: {c}]
    \cup [fail: {"net"}, status: {200}, remaining: {""}, variant: {1}, coll: {c}]
    \cup [fail: {"redirect"}, status: {302}, remaining: {"", "0"}, variant: {1}, coll: {c}]

\* Entries of the remote collection of a user's projects (UserProject).
Entries ==
    { [Slug |-> "gnl",   Teams |-> <<[RepoURL |-> "git@vogsphere:gnl"]>>],
      [Slug |-> "libft", Teams |-> <<>>],
      [Slug |-> "libft", Teams |-> <<[RepoURL |-> ""]>>],
      [Slug |-> "libft", Teams |-> <<[RepoURL |-> "git@vogsphere:libft"]>>] }

Collections == UNION {[1..n -> Entries] : n \in 0..MaxProjects}

Min(a, b) == IF a < b THEN a ELSE b
LastPage == (MaxProjects + PerPage - 1) \div PerPage
Pages == 1..(LastPage + 1)

\* The targets the operations below build, with the substring tests on them
\* evaluated once.
KnownTargets ==
    {Endpoint \o u : u \in GetPaths \cup {"/users"}
        \cup {"/users/" \o l : l \in Logins}
        \cup {"/users/" \o l \o "/projects_users?page=" \o ToString(n) :
                 l \in Logins, n \in Pages}}
KnownBad == {t \in KnownTargets : Contains(t, BadEscape)}
KnownProjects == {t \in KnownTargets : Contains(t, "/projects_users")}

HasBadEscape(t) ==
    IF t \in KnownTargets THEN t \in KnownBad ELSE Contains(t, BadEscape)
IsProjectsURL(t) ==
    IF t \in KnownTargets THEN t \in KnownProjects ELSE Contains(t, "/projects_users")

\* A response body, always of one shape so that bodies compare.
Body(kind, text, u, page) == [kind |-> kind, text |-> text, user |-> u, page |-> page]

----------------------------------------------------------------------------
(* The remote server and the Transport (environment) *)

\* Page n of the collection, as the remote endpoint slices it.
ServerPage(coll, n) ==
    SubSeq(coll, (n - 1) * PerPage + 1, Min(n * PerPage, Len(coll)))

\* The page number a projects_users request asks for.
PageOf(target) ==
    IF \E n \in Pages : EndsWith(target, "?page=" \o ToString(n))
    THEN CHOOSE n \in Pages : EndsWith(target, "?page=" \o ToString(n))
    ELSE 1

ServerBody(env, req) ==
    IF ~Is2xx(env.status)
    THEN Body("text", IF env.variant = 1 THEN "" ELSE "{\"error\":\"oops\"}", Nil, <<>>)
    ELSE IF req.method = "POST" /\ req.target = Endpoint \o "/users"
    THEN Body("user", "",
              Some([id |-> 127,
                    login |-> IF env.variant = 1 THEN req.body.user.login ELSE "srv-login",
                    url |-> "https://api.intra.42.fr/v2/users/" \o req.body.user.login]),
              <<>>)
    ELSE IF req.method = "GET" /\ IsProjectsURL(req.target)
    THEN Body("projects", "", Nil, ServerPage(env.coll, PageOf(req.target)))
    ELSE Body("text", IF env.status = 204 THEN "" ELSE "OK", Nil, <<>>)

\* http.Client.Do: one round trip.
RoundTrip(env, req) ==
    IF env.fail = "net"
    THEN [resp |-> Nil, err |-> "connection refused"]
    ELSE LET r == [status |-> env.status, remaining |-> env.remaining,
                   body |-> ServerBody(env, req)]
         IN [resp |-> Some(r),
             err |-> IF env.fail = "redirect" THEN "stopped after 10 redirects" ELSE NoErr]

----------------------------------------------------------------------------
(* pkg/ftapi/ftapi.go *)

New(apiEndpoint, authenticatedClient) ==
    [apiEndpoint |-> apiEndpoint, httpClient |-> authenticatedClient]

\* http.NewRequest(method, url, body)
NewRequest(method, target, body) ==
    IF HasBadEscape(target)
    THEN [req |-> Nil, err |-> "invalid URL escape"]
    ELSE [req |-> Some([method |-> method, target |-> target,
                        ctype |-> "", body |-> body]),
          err |-> NoErr]

\* do, had it turned every status >= 400 into an error of its own.
doStatusAsError(f, req, env) ==
    LET out == RoundTrip(env, req)
    IN IF out.err = NoErr /\ out.resp[1].status >= 400
       THEN [resp |-> Nil, err |-> "bad status", sent |-> <<req>>, wire |-> out, ft |-> f]
       ELSE [resp |-> out.resp, err |-> out.err, sent |-> <<req>>, wire |-> out, ft |-> f]

\* do, had it tried once more after a failed round trip.
doRetry(f, req, env) ==
    LET out == RoundTrip(env, req)
    IN IF out.err # NoErr
       THEN [resp |-> out.resp, err |-> out.err, sent |-> <<req, req>>, wire |-> out, ft |-> f]
       ELSE [resp |-> out.resp, err |-> out.err, sent |-> <<req>>, wire |-> out, ft |-> f]

\* do, had it kept the target of the last request as the client's endpoint.
doRebasesEndpoint(f, req, env) ==
    LET out == RoundTrip(env, req)
    IN [resp |-> out.resp, err |-> out.err, sent |-> <<req>>, wire |-> out,
        ft |-> [f EXCEPT !.apiEndpoint = req.target]]

\* func (ft *FtAPI) do(req): return ft.httpClient.Do(req)
do(f, req, env) ==
    LET out == RoundTrip(env, req)
    IN [resp |-> out.resp, err |-> out.err, sent |-> <<req>>, wire |-> out, ft |-> f]

\* Get, had it ignored the error of http.NewRequest and sent the request as
\* written.
GetUnchecked(f, url, env) ==
    do(f, [method |-> "GET", target |-> f.apiEndpoint \o url, ctype |-> "",
           body |-> Nil], env)

\* Get, had it left the path out of the target.
GetEndpointOnly(f, url, env) ==
    LET r == NewRequest("GET", f.apiEndpoint, Nil)
    IN IF r.err # NoErr
       THEN [resp |-> Nil, err |-> r.err, sent |-> <<>>,
             wire |-> [resp |-> Nil, err |-> NoErr], ft |-> f]
       ELSE do(f, r.req[1], env)

\* func (ft *FtAPI) Get(url)
Get(f, url, env) ==
    LET r == NewRequest("GET", f.apiEndpoint \o url, Nil)
    IN IF r.err # NoErr
       THEN [resp |-> Nil, err |-> r.err, sent |-> <<>>,
             wire |-> [resp |-> Nil, err |-> NoErr], ft |-> f]
       ELSE do(f, r.req[1], env)

----------------------------------------------------------------------------
(* Request verbs with a body (exercised by TestPost, TestPatch, TestPostJson, *)
(* TestPatchJson); same shape as Get.                                         *)

SendBody(f, method, url, ctype, body, env) ==
    LET r == NewRequest(method, f.apiEndpoint \o url, body)
    IN IF r.err # NoErr
       THEN [resp |-> Nil, err |-> r.err, sent |-> <<>>,
             wire |-> [resp |-> Nil, err |-> NoErr], ft |-> f]
       ELSE do(f, [r.req[1] EXCEPT !.ctype = ctype], env)

Patch(f, url, ctype, body, env) == SendBody(f, "PATCH", url, ctype, body, env)

PostJSON(f, url, data, env) == SendBody(f, "POST", url, "application/json", data, env)

PatchJSON(f, url, data, env) == SendBody(f, "PATCH", url, "application/json", data, env)

----------------------------------------------------------------------------
(* ResponseClassifier *)

ErrRateLimit == "exceeded rate limit"
ErrUserNotFound == "user not found"
ErrSetImage == "failed setting profile image"

\* Classify, had the status code been inspected before the quota header.
ClassifyStatusFirst(r) ==
    IF Is2xx(r.status) THEN "Success"
    ELSE IF r.remaining = "0" THEN "RateLimited"
    ELSE IF r.status = 404 THEN "NotFound"
    ELSE "GenericFailure"

Classify(r) ==
    IF r.remaining = "0" THEN "RateLimited"
    ELSE IF Is2xx(r.status) THEN "Success"
    ELSE IF r.status = 404 THEN "NotFound"
    ELSE "GenericFailure"

\* The error an operation returns for the outcome x of its verb call.
Outcome(x, notFound, failed) ==
    IF x.err # NoErr THEN x.err
    ELSE LET c == Classify(x.resp[1])
         IN CASE c = "RateLimited"    -> ErrRateLimit
              [] c = "NotFound"       -> notFound
              [] c = "GenericFailure" -> failed
              [] c = "Success"        -> NoErr

----------------------------------------------------------------------------
(* Caller-owned values *)

\* A User; "" and 0 are the unset (zero) values of a field.
NoUser == [ID |-> 0, URL |-> "", Login |-> "", Email |-> "", FirstName |-> "",
           LastName |-> "", Password |-> "", Kind |-> "",
           Campuses |-> <<>>, CampusUsers |-> <<>>]

NewUsers ==
    { [NoUser EXCEPT !.Login = "spoody", !.Email = "spoody@test.local",
                     !.FirstName = "Spooder", !.LastName = "Webz", !.Kind = "admin"],
      [NoUser EXCEPT !.Login = "spoody", !.Kind = "student", !.Password = "pw"],
      [NoUser EXCEPT !.Login = "ebou", !.Email = "e@test.local", !.ID = 5,
                     !.URL = "stale"] }

\* The patches of UpdateUser: every subset of the updatable fields set.
Patches ==
    { [NoUser EXCEPT !.Email = e, !.FirstName = fn, !.LastName = ln,
                     !.Password = pw, !.Kind = k] :
        e \in {"", "spoody@local.test"}, fn \in {"", "Spooder"},
        ln \in {"", "Webz"}, pw \in {"", "test"}, k \in {"", "student"} }

\* The campuses of a profile response; an ID names one campus.
CampusIDs == {21, 42}
CampusOf(id) == [ID |-> id, Name |-> IF id = 21 THEN "Benguerir" ELSE "42Network"]

CampusLists ==
    {<<>>} \cup {<<CampusOf(a)>> : a \in CampusIDs}
           \cup {<<CampusOf(p[1]), CampusOf(p[2])>> :
                    p \in {q \in CampusIDs \X CampusIDs : q[1] # q[2]}}

\* CampusUser entries; 99 is a campus the profile does not list.
CampusUserEntries == [CampusID: CampusIDs \cup {99}, IsPrimary: BOOLEAN]

CampusUserLists == UNION {[1..n -> CampusUserEntries] : n \in 0..MaxCampus}

\* Users as GetUserByLogin decodes them from a full profile response.
DecodedUsers ==
    { [NoUser EXCEPT !.ID = 66356, !.Login = "spoody", !.Campuses = cs,
                     !.CampusUsers = cus] :
        cs \in CampusLists, cus \in CampusUserLists }

\* An upload stream (*os.File): size bytes, pos of them read, the failAt-th
\* read fails (0: none does).
NoImg == [name |-> "", size |-> 0, pos |-> 0, failAt |-> 0, closed |-> TRUE]

Images ==
    { [name |-> "profile_photo.png", size |-> n, pos |-> 0, failAt |-> k,
       closed |-> FALSE] : n \in 0..MaxImg, k \in 0..MaxImg }

\* io.Copy(part, img): read until EOF or until a read fails.
ReadAll(s) ==
    IF s.failAt > s.pos /\ s.failAt <= s.size
    THEN [n |-> s.failAt - 1 - s.pos, err |-> "read error",
          stream |-> [s EXCEPT !.pos = s.failAt - 1]]
    ELSE [n |-> s.size - s.pos, err |-> NoErr,
          stream |-> [s EXCEPT !.pos = s.size]]

\* Close, had it been left out.
CloseForgotten(s) == s

Close(s) == [s EXCEPT !.closed = TRUE]

----------------------------------------------------------------------------
(* ResourceOperations *)

\* GetPrimaryCampus, had it returned the first campus of the list.
GetFirstCampus(u) ==
    IF \E k \in 1..Len(u.CampusUsers) : u.CampusUsers[k].IsPrimary
    THEN IF u.Campuses = <<>> THEN Nil ELSE Some(u.Campuses[1])
    ELSE Nil

\* (user *User) GetPrimaryCampus(): the campus of the primary CampusUser
\* entry (the first such entry), or nothing.
GetPrimaryCampus(u) ==
    LET prim == {k \in 1..Len(u.CampusUsers) : u.CampusUsers[k].IsPrimary}
        first == CHOOSE k \in prim : \A j \in prim : k <= j
        hits == {k \in 1..Len(u.Campuses) :
                    u.Campuses[k].ID = u.CampusUsers[first].CampusID}
    IN IF prim = {} THEN Nil
       ELSE IF hits = {} THEN Nil
       ELSE Some(u.Campuses[CHOOSE k \in hits : \A j \in hits : k <= j])

UpdatableKeys == {"email", "first_name", "last_name", "password", "kind"}

Field(u, key) ==
    CASE key = "email"      -> u.Email
      [] key = "first_name" -> u.FirstName
      [] key = "last_name"  -> u.LastName
      [] key = "password"   -> u.Password
      [] key = "kind"       -> u.Kind
      [] key = "login"      -> u.Login

\* The JSON object with a key for every field, set or not.
KeepEmpty(u, keys) == [k \in keys |-> Field(u, k)]

\* The JSON object of the set fields: an unset field has no key.
OmitEmpty(u, keys) ==
    [k \in {key \in keys : Field(u, key) # ""} |-> Field(u, k)]

\* CreateUser, had it decoded the whole response into the caller's User.
CreateUserDecodeAll(f, u, campusID, env) ==
    LET data == [user |-> [campus_id |-> campusID, email |-> u.Email,
                           first_name |-> u.FirstName, kind |-> u.Kind,
                           last_name |-> u.LastName, login |-> u.Login]]
        x == PostJSON(f, "/users", data, env)
        e == Outcome(x, "failed creating user", "failed creating user")
    IN [err |-> e, sent |-> x.sent, wire |-> x.wire, ft |-> x.ft,
        user |-> IF e = NoErr
                 THEN [u EXCEPT !.ID = x.resp[1].body.user[1].id,
                                !.URL = x.resp[1].body.user[1].url,
                                !.Login = x.resp[1].body.user[1].login]
                 ELSE u]

\* CreateUser(user, campusID): POST /users, back-fill ID and URL on success.
CreateUser(f, u, campusID, env) ==
    LET data == [user |-> [campus_id |-> campusID, email |-> u.Email,
                           first_name |-> u.FirstName, kind |-> u.Kind,
                           last_name |-> u.LastName, login |-> u.Login]]
        x == PostJSON(f, "/users", data, env)
        e == Outcome(x, "failed creating user", "failed creating user")
    IN [err |-> e, sent |-> x.sent, wire |-> x.wire, ft |-> x.ft,
        user |-> IF e = NoErr
                 THEN [u EXCEPT !.ID = x.resp[1].body.user[1].id,
                                !.URL = x.resp[1].body.user[1].url]
                 ELSE u]

\* UpdateUser(login, patch): PATCH /users/:login with the set fields only.
UpdateUser(f, login, patch, env) ==
    LET data == [user |-> OmitEmpty(patch, UpdatableKeys)]
        x == PatchJSON(f, "/users/" \o login, data, env)
    IN [err |-> Outcome(x, ErrUserNotFound, "failed updating user"),
        sent |-> x.sent, wire |-> x.wire, ft |-> x.ft, user |-> patch]

\* SetUserImage(login, img): PATCH /users/:login with a multipart body.
SetUserImage(f, login, s, env) ==
    LET rd == ReadAll(s)
        after == Close(rd.stream)
        form == [field |-> "user[image]", filename |-> s.name, size |-> rd.n]
        x == Patch(f, "/users/" \o login, "multipart/form-data; boundary=b", form, env)
    IN IF rd.err # NoErr
       THEN [err |-> rd.err, sent |-> <<>>,
             wire |-> [resp |-> Nil, err |-> NoErr], ft |-> f, img |-> after]
       ELSE [err |-> Outcome(x, ErrUserNotFound, ErrSetImage),
             sent |-> x.sent, wire |-> x.wire, ft |-> x.ft, img |-> after]

\* GetUserProjects(login, filters, sort, page): one page of the collection.
\* filters and sort are nil in the only caller (repo_path.go:24).
GetUserProjects(f, login, page, env) ==
    LET x == Get(f, "/users/" \o login \o "/projects_users?page=" \o ToString(page), env)
        e == Outcome(x, ErrUserNotFound, "failed getting user projects")
    IN [val |-> IF e = NoErr THEN Some(x.resp[1].body.page) ELSE Nil,
        err |-> e, sent |-> x.sent, wire |-> x.wire, ft |-> x.ft]

----------------------------------------------------------------------------
(* cmd/repo_path.go *)

Slugs == {"libft", "gnl"}

\* currentTeam(project): the project's current team, or an error.
CurrentTeam(project) ==
    {[team |-> Some(project.Teams[k]), err |-> NoErr] : k \in 1..Len(project.Teams)}
    \cup {[team |-> Nil, err |-> "current team not found"]}

\* FirstMatch, had the inner loop kept the last entry it does not skip.
LastMatch(page, slug) ==
    LET hits == {k \in 1..Len(page) :
                    page[k].Slug = slug /\ Len(page[k].Teams) # 0}
    IN IF hits = {} THEN 0 ELSE CHOOSE k \in hits : \A j \in hits : k >= j

\* Index of the first entry of the page the inner loop does not skip; 0 if none.
FirstMatch(page, slug) ==
    LET hits == {k \in 1..Len(page) :
                    page[k].Slug = slug /\ Len(page[k].Teams) # 0}
    IN IF hits = {} THEN 0 ELSE CHOOSE k \in hits : \A j \in hits : k <= j

NoRun == [slug |-> "", user |-> "", i |-> 0, asked |-> <<>>, err |-> NoErr,
          out |-> "", errOut |-> "", apiErr |-> NoErr]

\* The loop body, had it advanced the page index by two.
LoopBodySkipsPage(run, r, t) ==
    LET asked == [run EXCEPT !.asked = Append(@, run.i), !.apiErr = r.err]
        k == IF r.err = NoErr THEN FirstMatch(r.val[1], run.slug) ELSE 0
    IN IF r.err # NoErr
       THEN [pc |-> "done",
             run |-> [asked EXCEPT !.err = r.err, !.errOut = "GetUserProjects:" \o r.err]]
       ELSE IF Len(r.val[1]) = 0
       THEN [pc |-> "done",
             run |-> [asked EXCEPT !.err = run.slug \o " is not in your projects",
                                   !.out = "Team of " \o run.slug \o " is not locked."]]
       ELSE IF k = 0
       THEN [pc |-> "loop", run |-> [asked EXCEPT !.i = run.i + 2]]
       ELSE IF t.err # NoErr
       THEN [pc |-> "done", run |-> [asked EXCEPT !.err = t.err]]
       ELSE IF t.team[1].RepoURL = ""
       THEN [pc |-> "done",
             run |-> [asked EXCEPT !.errOut = "repository not found: " \o run.slug]]
       ELSE [pc |-> "done", run |-> [asked EXCEPT !.out = t.team[1].RepoURL]]

\* One iteration of the for loop of RunE, given the result r of
\* GetUserProjects(user, nil, nil, i) and the result t of currentTeam.
LoopBody(run, r, t) ==
    LET asked == [run EXCEPT !.asked = Append(@, run.i), !.apiErr = r.err]
        k == IF r.err = NoErr THEN FirstMatch(r.val[1], run.slug) ELSE 0
    IN IF r.err # NoErr
       THEN [pc |-> "done",
             run |-> [asked EXCEPT !.err = r.err, !.errOut = "GetUserProjects:" \o r.err]]
       ELSE IF Len(r.val[1]) = 0
       THEN [pc |-> "done",
             run |-> [asked EXCEPT !.err = run.slug \o " is not in your projects",
                                   !.out = "Team of " \o run.slug \o " is not locked."]]
       ELSE IF k = 0
       THEN [pc |-> "loop", run |-> [asked EXCEPT !.i = run.i + 1]]
       ELSE IF t.err # NoErr
       THEN [pc |-> "done", run |-> [asked EXCEPT !.err = t.err]]
       ELSE IF t.team[1].RepoURL = ""
       THEN [pc |-> "done",
             run |-> [asked EXCEPT !.errOut = "repository not found: " \o run.slug]]
       ELSE [pc |-> "done", run |-> [asked EXCEPT !.out = t.team[1].RepoURL]]

----------------------------------------------------------------------------
(* State machine *)

NoWire == [resp |-> Nil, err |-> NoErr]
NoRet == [resp |-> Nil, err |-> NoErr, val |-> Nil]
NoArg == [login |-> "", url |-> "", page |-> 0, campusID |-> 0]

\* Callers of Get that share the client, each in its own goroutine.
Callers == 1..NumCallers

NoCaller == [pc |-> "idle", url |-> "", req |-> Nil, env |-> Nil,
             ret |-> [resp |-> Nil, err |-> NoErr], sent |-> <<>>]
NoCallers == [c \in Callers |-> NoCaller]

\* The exchanges the concurrent callers meet.
ConcEnvs == {e \in Envs(<<>>) : e.status \in {200, 302, 404} /\ e.variant = 1}

Init ==
    /\ ft = New(Endpoint, "client")
    /\ op = "none"
    /\ arg = NoArg
    /\ wire = NoWire
    /\ sent = <<>>
    /\ ret = NoRet
    /\ user = NoUser
    /\ userBefore = NoUser
    /\ img = NoImg
    /\ projects = <<>>
    /\ pc = "idle"
    /\ rp = NoRun
    /\ cc = NoCallers

CallGet ==
    /\ pc = "idle"
    /\ \E url \in GetPaths, env \in Envs(<<>>) :
         LET r == Get(ft, url, env)
         IN /\ op' = "Get"
            /\ arg' = [NoArg EXCEPT !.url = url]
            /\ ft' = r.ft
            /\ wire' = r.wire
            /\ sent' = r.sent
            /\ ret' = [resp |-> r.resp, err |-> r.err, val |-> Nil]
    /\ pc' = "returned"
    /\ UNCHANGED <<user, userBefore, img, projects, rp, cc>>

CallCreateUser ==
    /\ pc = "idle"
    /\ \E u \in NewUsers, campusID \in {21}, env \in Envs(<<>>) :
         LET r == CreateUser(ft, u, campusID, env)
         IN /\ op' = "CreateUser"
            /\ arg' = [NoArg EXCEPT !.campusID = campusID]
            /\ ft' = r.ft
            /\ wire' = r.wire
            /\ sent' = r.sent
            /\ ret' = [resp |-> Nil, err |-> r.err, val |-> Nil]
            /\ userBefore' = u
            /\ user' = r.user
    /\ pc' = "returned"
    /\ UNCHANGED <<img, projects, rp, cc>>

CallUpdateUser ==
    /\ pc = "idle"
    /\ \E login \in Logins, patch \in Patches, env \in Envs(<<>>) :
         LET r == UpdateUser(ft, login, patch, env)
         IN /\ op' = "UpdateUser"
            /\ arg' = [NoArg EXCEPT !.login = login]
            /\ ft' = r.ft
            /\ wire' = r.wire
            /\ sent' = r.sent
            /\ ret' = [resp |-> Nil, err |-> r.err, val |-> Nil]
            /\ userBefore' = patch
            /\ user' = r.user
    /\ pc' = "returned"
    /\ UNCHANGED <<img, projects, rp, cc>>

CallSetUserImage ==
    /\ pc = "idle"
    /\ \E login \in Logins, s \in Images, env \in Envs(<<>>) :
         LET r == SetUserImage(ft, login, s, env)
         IN /\ op' = "SetUserImage"
            /\ arg' = [NoArg EXCEPT !.login = login]
            /\ ft' = r.ft
            /\ wire' = r.wire
            /\ sent' = r.sent
            /\ ret' = [resp |-> Nil, err |-> r.err, val |-> Nil]
            /\ img' = r.img
    /\ pc' = "returned"
    /\ UNCHANGED <<user, userBefore, projects, rp, cc>>

CallGetUserProjects ==
    /\ pc = "idle"
    /\ \E login \in Logins, page \in Pages, coll \in Collections :
         \E env \in Envs(coll) :
           LET r == GetUserProjects(ft, login, page, env)
           IN /\ op' = "GetUserProjects"
              /\ arg' = [NoArg EXCEPT !.login = login, !.page = page]
              /\ ft' = r.ft
              /\ wire' = r.wire
              /\ sent' = r.sent
              /\ ret' = [resp |-> Nil, err |-> r.err, val |-> r.val]
              /\ projects' = coll
    /\ pc' = "returned"
    /\ UNCHANGED <<user, userBefore, img, rp, cc>>

\* user.GetPrimaryCampus() on a decoded User.
CallGetPrimaryCampus ==
    /\ pc = "idle"
    /\ \E u \in DecodedUsers :
         /\ op' = "GetPrimaryCampus"
         /\ user' = u
         /\ userBefore' = u
         /\ ret' = [resp |-> Nil, err |-> NoErr, val |-> GetPrimaryCampus(u)]
    /\ pc' = "returned"
    /\ UNCHANGED <<ft, arg, wire, sent, img, projects, rp, cc>>

\* RunE up to the loop: read the --user flag.
RepoPathStart ==
    /\ pc = "idle"
    /\ \E slug \in Slugs, login \in Logins, coll \in Collections,
          flagDefined \in BOOLEAN :
         /\ projects' = coll
         /\ IF flagDefined
            THEN /\ pc' = "loop"
                 /\ rp' = [NoRun EXCEPT !.slug = slug, !.user = login, !.i = 1]
            ELSE /\ pc' = "done"
                 /\ rp' = [NoRun EXCEPT !.slug = slug,
                                        !.err = "flag accessed but not defined: user"]
    /\ op' = "none"
    /\ UNCHANGED <<ft, arg, wire, sent, ret, user, userBefore, img, cc>>

\* One iteration of the loop of RunE: one GetUserProjects call and the scan
\* of the page it returned.
RepoPathStep ==
    /\ pc = "loop"
    /\ \E env \in Envs(projects) :
         LET r == GetUserProjects(ft, rp.user, rp.i, env)
             k == IF r.err = NoErr THEN FirstMatch(r.val[1], rp.slug) ELSE 0
         IN /\ op' = "GetUserProjects"
            /\ arg' = [NoArg EXCEPT !.login = rp.user, !.page = rp.i]
            /\ ft' = r.ft
            /\ wire' = r.wire
            /\ sent' = r.sent
            /\ ret' = [resp |-> Nil, err |-> r.err, val |-> r.val]
            /\ \E t \in (IF k = 0 THEN {[team |-> Nil, err |-> NoErr]}
                                  ELSE CurrentTeam(r.val[1][k])) :
                 LET n == LoopBody(rp, r, t)
                 IN pc' = n.pc /\ rp' = n.run
    /\ UNCHANGED <<user, userBefore, img, projects, cc>>

\* The caller is done with the result; the transient values are dropped.
Discard ==
    /\ pc \in {"returned", "done"}
    /\ pc' = "idle"
    /\ op' = "none"
    /\ arg' = NoArg
    /\ wire' = NoWire
    /\ sent' = <<>>
    /\ ret' = NoRet
    /\ user' = NoUser
    /\ userBefore' = NoUser
    /\ img' = NoImg
    /\ projects' = <<>>
    /\ rp' = NoRun
    /\ cc' = NoCallers
    /\ UNCHANGED ft

\* The program hands the one client to several callers.
ConcStart ==
    /\ pc = "idle"
    /\ pc' = "conc"
    /\ UNCHANGED <<ft, op, arg, wire, sent, ret, user, userBefore, img, projects,
                   rp, cc>>

\* Get up to the call of do (ftapi.go:37-40): caller c builds its request
\* from the client's endpoint.
CallerBegin(c) ==
    /\ pc = "conc"
    /\ cc[c].pc = "idle"
    /\ \E url \in GetPaths :
         LET r == NewRequest("GET", ft.apiEndpoint \o url, Nil)
         IN cc' = [cc EXCEPT ![c] =
                     IF r.err # NoErr
                     THEN [NoCaller EXCEPT !.pc = "returned", !.url = url,
                                           !.ret = [resp |-> Nil, err |-> r.err]]
                     ELSE [NoCaller EXCEPT !.pc = "built", !.url = url,
                                           !.req = r.req]]
    /\ UNCHANGED <<ft, op, arg, wire, sent, ret, user, userBefore, img, projects,
                   pc, rp>>

\* Get from the call of do on (ftapi.go:41, 31-33): caller c hands its request
\* to the client's Transport and returns.
CallerExchange(c) ==
    /\ pc = "conc"
    /\ cc[c].pc = "built"
    /\ \E env \in ConcEnvs :
         LET x == do(ft, cc[c].req[1], env)
         IN /\ ft' = x.ft
            /\ cc' = [cc EXCEPT ![c] =
                        [@ EXCEPT !.pc = "returned", !.env = Some(env),
                                  !.ret = [resp |-> x.resp, err |-> x.err],
                                  !.sent = x.sent]]
    /\ UNCHANGED <<op, arg, wire, sent, ret, user, userBefore, img, projects,
                   pc, rp>>

\* Every caller has returned.
ConcJoin ==
    /\ pc = "conc"
    /\ \A c \in Callers : cc[c].pc = "returned"
    /\ pc' = "returned"
    /\ UNCHANGED <<ft, op, arg, wire, sent, ret, user, userBefore, img, projects,
                   rp, cc>>

Next ==
    \/ CallGet
    \/ CallCreateUser
    \/ CallUpdateUser
    \/ CallSetUserImage
    \/ CallGetUserProjects
    \/ CallGetPrimaryCampus
    \/ RepoPathStart
    \/ RepoPathStep
    \/ Discard
    \/ ConcStart
    \/ \E c \in Callers : CallerBegin(c)
    \/ \E c \in Callers : CallerExchange(c)
    \/ ConcJoin

Spec == Init /\ [][Next]_vars

----------------------------------------------------------------------------
(* Properties *)

Called == op # "none"

\* The exchange of the last operation completed with a response and no
\* transport error.
Responded == Called /\ wire.err = NoErr /\ wire.resp # Nil

Exhausted == Responded /\ wire.resp[1].remaining = "0"

\* C1: whenever the response of an operation (plain Get included) carries
\* X-Hourly-Ratelimit-Remaining "0", whatever its status code, the operation
\* returns the error "exceeded rate limit" and neither a response nor a value.
C1_RateLimitedWhateverStatus ==
    Exhausted => ret.err = ErrRateLimit /\ ret.resp = Nil /\ ret.val = Nil

\* C2: SetUserImage whose response has status 404 and no exhausted quota
\* header returns exactly "user not found", whatever the body holds.
C2_SetUserImageNotFound ==
    (op = "SetUserImage" /\ Responded /\ ~Exhausted /\ wire.resp[1].status = 404)
        => ret.err = ErrUserNotFound

C2_Witness ==
    /\ op = "SetUserImage" /\ Responded /\ ~Exhausted
    /\ wire.resp[1].status = 404
    /\ wire.resp[1].body.text # ""
    /\ ret.err = ErrUserNotFound

\* C3: SetUserImage whose response has a status that is neither 2xx nor 404,
\* and no exhausted quota header, returns exactly "failed setting profile
\* image", the same for every such status.
C3_SetUserImageFailure ==
    (op = "SetUserImage" /\ Responded /\ ~Exhausted
        /\ ~Is2xx(wire.resp[1].status) /\ wire.resp[1].status # 404)
        => ret.err = ErrSetImage

C3_Witness ==
    /\ op = "SetUserImage" /\ Responded /\ ~Exhausted
    /\ wire.resp[1].status = 302
    /\ wire.resp[1].remaining = "7"
    /\ ret.err = ErrSetImage

\* C4: CreateUser on a success response sets the caller's User.ID and
\* User.URL to the values the server assigned and leaves every other field of
\* the caller's User as it was before the call.
C4_CreateUserBackfill ==
    (op = "CreateUser" /\ ret.err = NoErr)
        => /\ Responded
           /\ user.ID = wire.resp[1].body.user[1].id
           /\ user.URL = wire.resp[1].body.user[1].url
           /\ user.Login = userBefore.Login
           /\ user.Email = userBefore.Email
           /\ user.FirstName = userBefore.FirstName
           /\ user.LastName = userBefore.LastName
           /\ user.Password = userBefore.Password
           /\ user.Kind = userBefore.Kind
           /\ user.Campuses = userBefore.Campuses
           /\ user.CampusUsers = userBefore.CampusUsers

C4_Witness ==
    /\ op = "CreateUser" /\ ret.err = NoErr
    /\ wire.resp[1].status = 201
    /\ wire.resp[1].body.user[1].login # userBefore.Login
    /\ userBefore.ID = 0 /\ user.ID = 127
    /\ user.URL = "https://api.intra.42.fr/v2/users/spoody"

\* C5: for every subset of email, first_name, last_name, password, kind set
\* on the patch of UpdateUser, the body sent is the envelope {"user": {...}}
\* whose keys are exactly the set fields, each with the field's value; an
\* unset field has no key (no empty string, zero or null).
C5_UpdateUserOmitsUnset ==
    (op = "UpdateUser" /\ sent # <<>>)
        => LET body == sent[1].body
               keys == DOMAIN body.user
           IN /\ DOMAIN body = {"user"}
              /\ keys \subseteq UpdatableKeys
              /\ ("email" \in keys) <=> (userBefore.Email # "")
              /\ ("first_name" \in keys) <=> (userBefore.FirstName # "")
              /\ ("last_name" \in keys) <=> (userBefore.LastName # "")
              /\ ("password" \in keys) <=> (userBefore.Password # "")
              /\ ("kind" \in keys) <=> (userBefore.Kind # "")
              /\ \A k \in keys : body.user[k] # ""
              /\ "email" \in keys => body.user["email"] = userBefore.Email
              /\ "first_name" \in keys => body.user["first_name"] = userBefore.FirstName
              /\ "last_name" \in keys => body.user["last_name"] = userBefore.LastName
              /\ "password" \in keys => body.user["password"] = userBefore.Password
              /\ "kind" \in keys => body.user["kind"] = userBefore.Kind

C5_Witness ==
    /\ op = "UpdateUser" /\ sent # <<>>
    /\ userBefore.Email # "" /\ userBefore.Kind # ""
    /\ userBefore.FirstName = "" /\ userBefore.LastName = "" /\ userBefore.Password = ""
    /\ DOMAIN sent[1].body.user = {"email", "kind"}

\* The errors of request construction.
BuildErrs == {"invalid URL escape", "read error"}

\* C6: the Transport is invoked only after request construction succeeded.
\* An operation whose request cannot be built (an unparsable target, a failed
\* read of the upload stream) returns that error, has made no Transport call
\* and has left the caller's User as it was; a request that reached the
\* Transport is well formed and carries the whole upload.
C6_BuildBeforeSend ==
    Called =>
        /\ ret.err \in BuildErrs
              => /\ sent = <<>>
                 /\ wire = NoWire
                 /\ ret.resp = Nil /\ ret.val = Nil
                 /\ op \in {"CreateUser", "UpdateUser"} => user = userBefore
        /\ (Contains(arg.url, BadEscape) \/ Contains(arg.login, BadEscape))
              => ret.err \in BuildErrs
        /\ (op = "SetUserImage" /\ img.pos < img.size) => ret.err = "read error"
        /\ sent # <<>>
              => /\ ~Contains(sent[1].target, BadEscape)
                 /\ op = "SetUserImage" => sent[1].body.size = img.size

C6_Witness ==
    /\ op = "Get" /\ Contains(arg.url, BadEscape)
    /\ ret.err = "invalid URL escape" /\ sent = <<>>

\* C7: an operation makes at most one Transport exchange per call; after a
\* transport, rate-limit or status failure it returns the error without a
\* second request.
C7_SingleExchange ==
    /\ Len(sent) <= 1
    /\ (Called /\ ret.err # NoErr /\ ret.err \notin BuildErrs) => Len(sent) = 1

C7_Witness ==
    /\ op = "Get" /\ wire.err = "connection refused"
    /\ ret.err = "connection refused" /\ Len(sent) = 1

NumPages(coll) == (Len(coll) + PerPage - 1) \div PerPage

\* C9: a GetUserProjects exchange that succeeds (2xx, quota not exhausted)
\* returns no error and the page asked for: an empty sequence for a page
\* beyond the last, at least one element for page 1 of a non-empty collection.
C9_Pagination ==
    (op = "GetUserProjects" /\ Responded /\ Classify(wire.resp[1]) = "Success")
        => /\ ret.err = NoErr /\ ret.val # Nil
           /\ arg.page > NumPages(projects) => ret.val[1] = <<>>
           /\ (arg.page = 1 /\ projects # <<>>) => Len(ret.val[1]) >= 1
           /\ \A k \in 1..Len(ret.val[1]) :
                 ret.val[1][k] = projects[(arg.page - 1) * PerPage + k]

C9_Witness ==
    /\ op = "GetUserProjects" /\ ret.err = NoErr
    /\ Len(projects) = MaxProjects
    /\ arg.page = NumPages(projects) + 1
    /\ ret.val = Some(<<>>)

\* The operations that hand a response or a decoded value back.
ValueOps == {"Get", "GetUserProjects"}

\* C10: no error is swallowed.  A Transport failure and a classification
\* failure (for the plain Get: an exhausted quota) are returned as an error;
\* an operation with a result returns either the result or an error, never
\* both and never neither; the repo-path command returns the error of a
\* failed GetUserProjects call.
C10_NoErrorSwallowed ==
    /\ Called =>
        /\ wire.err # NoErr => ret.err = wire.err
        /\ Exhausted => ret.err # NoErr
        /\ (Responded /\ op # "Get" /\ Classify(wire.resp[1]) # "Success")
              => ret.err # NoErr
        /\ op \in ValueOps
              => (ret.err # NoErr) # (ret.resp # Nil \/ ret.val # Nil)
    /\ (pc = "done" /\ rp.apiErr # NoErr) => rp.err = rp.apiErr

\* The CampusUsers entries of the User that have the primary flag set.
Primaries == {k \in 1..Len(user.CampusUsers) : user.CampusUsers[k].IsPrimary}

\* C11: for a decoded User with at most one primary CampusUsers entry,
\* GetPrimaryCampus returns nothing when no entry is primary and, when exactly
\* one is, the Campus of the User's Campuses whose ID is that entry's CampusID
\* (nothing if the User lists no such campus).
C11_PrimaryCampus ==
    (op = "GetPrimaryCampus" /\ Cardinality(Primaries) <= 1)
        => /\ Primaries = {} => ret.val = Nil
           /\ \A k \in Primaries :
                 /\ \A c \in 1..Len(user.Campuses) :
                       user.Campuses[c].ID = user.CampusUsers[k].CampusID
                          => ret.val = Some(user.Campuses[c])
                 /\ (\A c \in 1..Len(user.Campuses) :
                       user.Campuses[c].ID # user.CampusUsers[k].CampusID)
                          => ret.val = Nil
           /\ user = userBefore

C11_Witness ==
    /\ op = "GetPrimaryCampus"
    /\ Len(user.CampusUsers) = 2 /\ Len(user.Campuses) = 2
    /\ Primaries = {2}
    /\ user.CampusUsers[2].CampusID = user.Campuses[2].ID
    /\ ret.val = Some(user.Campuses[2])

\* What a call Get(url) meeting exchange env returns when it runs alone on a
\* client fresh from New.
Alone(url, env) == Get(New(Endpoint, "client"), url, env)

\* C12: the client is immutable after construction: no operation changes its
\* endpoint or its Transport reference; hence each of several callers that
\* run Get concurrently on the one client sends the request and gets the
\* result it would send and get running alone.
C12_ClientImmutable ==
    /\ ft = New(Endpoint, "client")
    /\ \A c \in Callers :
          cc[c].pc = "returned"
             => \E env \in (IF cc[c].env = Nil THEN ConcEnvs ELSE {cc[c].env[1]}) :
                   /\ cc[c].ret.resp = Alone(cc[c].url, env).resp
                   /\ cc[c].ret.err = Alone(cc[c].url, env).err
                   /\ cc[c].sent = Alone(cc[c].url, env).sent

C12_Witness ==
    /\ pc = "conc"
    /\ cc[1].pc = "returned" /\ cc[1].sent # <<>>
    /\ cc[2].pc = "built" /\ cc[2].url # cc[1].url
    /\ ft = New(Endpoint, "client")

\* C13: Get(path), for a path with which the target parses, hands the
\* Transport exactly one request: verb GET, target the client's endpoint
\* followed by path, no body.  When the response is a success (2xx) without an
\* exhausted quota header, Get returns that response, body and headers as
\* they arrived, with a nil error.
C13_GetRequestAndResponse ==
    (op = "Get" /\ ~Contains(arg.url, BadEscape))
        => /\ Len(sent) = 1
           /\ sent[1].method = "GET"
           /\ sent[1].target = ft.apiEndpoint \o arg.url
           /\ sent[1].body = Nil
           /\ (Responded /\ Classify(wire.resp[1]) = "Success")
                 => /\ ret.err = NoErr
                    /\ ret.resp = wire.resp
                    /\ ret.resp[1].body = wire.resp[1].body
                    /\ ret.resp[1].remaining = wire.resp[1].remaining

C13_Witness ==
    /\ op = "Get" /\ arg.url = "/v2/users"
    /\ sent # <<>> /\ sent[1].target = "http://api/v2/users"
    /\ Responded /\ wire.resp[1].status = 200 /\ wire.resp[1].remaining = "7"
    /\ ret.err = NoErr /\ ret.resp # Nil /\ ret.resp[1].body.text = "OK"

\* The repo-path command has entered its loop.
Walking == pc \in {"loop", "done"} /\ rp.i > 0

\* A page at which the walk stops without an error: it is empty, or holds an
\* entry with the slug asked for and at least one team.
Stops(page, slug) ==
    \/ page = <<>>
    \/ \E k \in 1..Len(page) : page[k].Slug = slug /\ Len(page[k].Teams) >= 1

\* C14: the repo-path command asks GetUserProjects for the pages 1, 2, 3, ...
\* in this order, each once, and stops at the first page that returns an
\* error, is empty or holds a matching entry with a team: no page before the
\* last one asked is such a page, the last one asked of a finished run is, and
\* the run makes at most N calls when page N of the collection is empty.
C14_PageWalk ==
    Walking =>
        /\ \A k \in 1..Len(rp.asked) : rp.asked[k] = k
        /\ Len(rp.asked) <= NumPages(projects) + 1
        /\ pc = "loop"
              => /\ rp.i = Len(rp.asked) + 1
                 /\ \A k \in 1..Len(rp.asked) :
                       ~Stops(ServerPage(projects, k), rp.slug)
        /\ pc = "done"
              => /\ Len(rp.asked) >= 1
                 /\ rp.i = Len(rp.asked)
                 /\ \A k \in 1..(Len(rp.asked) - 1) :
                       ~Stops(ServerPage(projects, k), rp.slug)
                 /\ ret.err # NoErr \/ Stops(ret.val[1], rp.slug)
                 /\ arg.page = rp.i

C14_Witness ==
    /\ pc = "done" /\ rp.i > 0
    /\ rp.asked = <<1, 2, 3>>
    /\ ret.err = NoErr /\ ret.val = Some(<<>>)

\* Index in the collection of the first entry with the slug and a team; 0 if
\* there is none.
FirstHit(coll, slug) ==
    LET hits == {k \in 1..Len(coll) :
                    coll[k].Slug = slug /\ Len(coll[k].Teams) >= 1}
    IN IF hits = {} THEN 0 ELSE CHOOSE k \in hits : \A j \in hits : k <= j

\* C15: a run of the repo-path command for slug S whose GetUserProjects calls
\* all succeed, and whose current team resolves, is decided by the first
\* entry, in page order then in-page order, with slug S and at least one team:
\* a non-empty repository URL of its current team is printed and the command
\* returns nil; with an empty URL it reports "repository not found" and
\* returns nil; without such an entry before the first empty page it returns
\* the error "S is not in your projects".
C15_RepoPathOutcome ==
    (Walking /\ pc = "done" /\ rp.apiErr = NoErr /\ rp.err # "current team not found")
        => LET m == FirstHit(projects, rp.slug)
           IN IF m = 0
              THEN /\ rp.err = rp.slug \o " is not in your projects"
                   /\ ret.val = Some(<<>>)
              ELSE /\ rp.err = NoErr
                   /\ Len(rp.asked) = (m + PerPage - 1) \div PerPage
                   /\ \E t \in 1..Len(projects[m].Teams) :
                         LET url == projects[m].Teams[t].RepoURL
                         IN IF url # ""
                            THEN rp.out = url /\ rp.errOut = ""
                            ELSE /\ rp.out = ""
                                 /\ rp.errOut = "repository not found: " \o rp.slug

C15_Witness ==
    /\ Walking /\ pc = "done" /\ rp.slug = "libft"
    /\ Len(projects) = 3
    /\ projects[1].Slug = "gnl"
    /\ projects[2].Teams = <<>>
    /\ projects[3].Teams # <<>> /\ projects[3].Teams[1].RepoURL = ""
    /\ rp.asked = <<1, 2>>
    /\ rp.err = NoErr /\ rp.errOut = "repository not found: libft"

Classes == {"Success", "RateLimited", "NotFound", "GenericFailure"}

\* The response r meets the description of the class k.
InClass(k, r) ==
    CASE k = "RateLimited"    -> r.remaining = "0"
      [] k = "NotFound"       -> r.remaining # "0" /\ r.status = 404
      [] k = "GenericFailure" -> /\ r.remaining # "0"
                                 /\ ~Is2xx(r.status) /\ r.status # 404
      [] k = "Success"        -> r.remaining # "0" /\ Is2xx(r.status)

\* The operations that hand the exchange to the classifier.
ClassifiedOps == {"CreateUser", "UpdateUser", "SetUserImage", "GetUserProjects"}

====
